---------------------------- MODULE Spec2Model ----------------------------
(***************************************************************************)
(* The pagination fetch controller of react-virtual-infinite-list         *)
(* (useInfiniteList) as a state machine.  React state is kept as its      *)
(* latest queued value; `rendered` is what the closures of the last       *)
(* render captured.  Every await of the source is a suspension point:     *)
(* the part of an async function before an await and the part after it    *)
(* are separate actions.                                                  *)
(***************************************************************************)
EXTENDS Integers, Sequences, FiniteSets, TLC

\* ------------------------------------------------------------------ bounds
\* Total number of fetcher calls in one behaviour.
MaxFetches == 2
\* Largest maxAttempts handed to loadUntilCount.
MaxAttemptsArg == 2
\* Largest number of items given to useVirtualList.
MaxItems == 3
\* Largest scroll offset and largest viewport extent reported to it.
MaxScrollTop == 16
MaxContainerHeight == 6
\* Largest overscan option.
MaxOverscan == 1

\* ------------------------------------------------------- program constants
\* pagination.limit ?? 20
DefaultLimit == 20
\* pagination.initialPage ?? 1
DefaultInitialPage == 1
\* useVirtualList: overscan = 3
DefaultOverscan == 3
\* loadUntilCount: maxAttempts = 100
DefaultMaxAttempts == 100
\* InfiniteListInner: itemHeight: virtualized?.itemHeight ?? 50
DefaultItemHeight == 50
\* InfiniteListInner: threshold = 200
DefaultThreshold == 200

\* ------------------------------------------------------------- JS values
Null == "null"
Undefined == "undefined"
Err == "Error"

\* Values a next-cursor extractor can return.
Cursors == {Null, Undefined, "abc"}
\* Numbers of items one response can carry.
Sizes == {5, DefaultLimit}
\* Values a total extractor can return.
Totals == {20, 45}

\* A response, as seen through the extraction functions: getData gives n
\* items, getTotal gives total, getNextCursor gives next, and the custom
\* hasMore predicate answers more.
Responses == [n : Sizes, total : Totals, next : Cursors, more : BOOLEAN]

\* The responses told apart by the extraction functions options c supplies:
\* a field no supplied function reads is held at one value.
ResponsesFor(c) ==
  { r \in Responses :
      /\ ~c.hasMoreFn => r.more = TRUE
      /\ r.next # Undefined
      /\ ~(c.mode = "cursor" /\ c.getNextCursor) => r.next = Null
      /\ ~(c.mode = "page" /\ c.getTotal /\ ~c.hasMoreFn) => r.total = 45 }

NoResponse == [n |-> 0, total |-> 0, next |-> Null, more |-> FALSE]

\* The options the hook is constructed with, and with them the number of
\* fetcher calls the exploration of the instance is cut off at.
AllConfigs ==
  [mode : {"page", "cursor"}, hasMoreFn : BOOLEAN, getNextCursor : BOOLEAN,
   getTotal : BOOLEAN, initialCursor : {Null, "abc"}, budget : {MaxFetches}]

\* The options the controller is explored under: an extractor the mode never
\* calls (getNextCursor in page mode, getTotal in cursor mode) is left out,
\* and so is a total extractor that a custom predicate overrides.
Configs ==
  { c \in AllConfigs :
      /\ c.mode = "page" => (~c.getNextCursor /\ c.initialCursor = Null)
      /\ c.mode = "cursor" => (~c.getTotal /\ c.initialCursor = "abc")
      /\ c.hasMoreFn => ~c.getTotal }

\* Where the body of fetchData's try block can throw.
ThrowPoints == {"none", "fetcher", "getData", "getNextCursor", "checkHasMore", "onSuccess"}

VARIABLES
  cfg,               \* the options (fixed for the instance) and the fetch budget
  enabled,           \* the enabled option at the last render
  mounted,           \* the first render has happened
  items, isLoading, isLoadingMore, error, hasMore,      \* useState
  rendered,          \* isLoading / isLoadingMore captured by the last render
  pageRef, cursorRef, totalRef, isFetchingRef, isInitializedRef,
  itemsRef, hasMoreRef,                                 \* useRef
  inflight,          \* fetcher calls that have not settled
  nIssued,           \* fetcher calls made so far
  refreshPc,         \* refresh(): "idle", "timer" (awaiting setTimeout 0), "await"
  luc,               \* loadUntilCount(): its loop state; result is result.hasMore,
                     \* calls the number of fetcher calls the running call made
  op,                \* observation: the step just taken, where a specification records it
  itemHeights,       \* useVirtualList: getItemHeight(i) for the items it is given
  scrollTop, containerHeight,                           \* useVirtualList useState
  overscan,          \* useVirtualList: the overscan option
  useWindowScroll,   \* useVirtualList: the useWindowScroll option
  scrolled,          \* twice the offsets last written to container.scrollTop and
                     \* handed to window.scrollTo (center alignment halves pixels)
  swal,             \* scrollToIndexWithAutoLoad(): its position, its arguments and
                     \* what the scrollToIndex it closes over closes over
  renderedHasMore    \* InfiniteListInner: hasMore as handleLoadMore of the last render
                     \* captured it

vlVars == <<itemHeights, scrollTop, containerHeight, overscan, useWindowScroll, scrolled>>
vars == <<cfg, enabled, mounted, items, isLoading, isLoadingMore, error, hasMore, rendered,
          pageRef, cursorRef, totalRef, isFetchingRef, isInitializedRef, itemsRef,
          hasMoreRef, inflight, nIssued, refreshPc, luc, op, vlVars, swal, renderedHasMore>>

\* ---------------------------------------------------------------- helpers
RECURSIVE ItemsLen(_)
\* items.length, items being kept as the sequence of batches appended.
ItemsLen(s) == IF s = <<>> THEN 0 ELSE s[1].n + ItemsLen(Tail(s))

isPagePagination == cfg.mode = "page"
limit == DefaultLimit

initialPage == DefaultInitialPage
initialCursor == IF ~isPagePagination THEN cfg.initialCursor ELSE Null

\* const params = isPagePagination ? { page, limit } : { cursor, limit }
Params ==
  IF isPagePagination THEN [page |-> pageRef, limit |-> limit]
  ELSE [cursor |-> cursorRef, limit |-> limit]


LucIdle == [pc |-> "idle", target |-> 0, max |-> 0, attempts |-> 0, result |-> Null,
            calls |-> 0]

\* An observation of no step.
NoOp == [name |-> "none"]

\* ----------------------------------------------------------- checkHasMore
\* checkHasMore consulting the next cursor before the custom predicate.
checkHasMoreCursorFirst(r, allItems) ==
  IF ~isPagePagination /\ cfg.getNextCursor
       THEN r.next # Null /\ r.next # Undefined
  ELSE IF cfg.hasMoreFn THEN r.more
  ELSE IF isPagePagination /\ cfg.getTotal
       THEN ItemsLen(allItems) < r.total
  ELSE r.n >= limit

checkHasMore(r, allItems) ==
  IF cfg.hasMoreFn THEN r.more
  ELSE IF ~isPagePagination /\ cfg.getNextCursor
       THEN r.next # Null /\ r.next # Undefined
  ELSE IF isPagePagination /\ cfg.getTotal
       THEN ItemsLen(allItems) < r.total
  ELSE r.n >= limit

\* checkHasMore reaches the getTotal branch, which also stores the total.
StoresTotal == ~cfg.hasMoreFn /\ isPagePagination /\ cfg.getTotal

\* -------------------------------------------------------------- fetchData
\* The two early returns of fetchData.
fetchDataGuard(isLoadMore) == isFetchingRef \/ (isLoadMore /\ ~hasMoreRef)

fetchDataEarly(isLoadMore) ==
  IF isFetchingRef THEN [itemsCount |-> ItemsLen(itemsRef), hasMore |-> hasMoreRef]
  ELSE [itemsCount |-> ItemsLen(itemsRef), hasMore |-> FALSE]

\* fetchData raising isLoading for continuation fetches too.
fetchDataIssueBothFlags(isLoadMore, by) ==
  /\ nIssued < cfg.budget
  /\ isFetchingRef' = TRUE
  /\ isLoadingMore' = (IF isLoadMore THEN TRUE ELSE isLoadingMore)
  /\ isLoading' = TRUE
  /\ error' = Null
  /\ inflight' = inflight \cup
        {[id |-> nIssued + 1, isLoadMore |-> isLoadMore, params |-> Params, by |-> by]}
  /\ nIssued' = nIssued + 1

\* fetchData from its first statement to the await of the fetcher.
fetchDataIssue(isLoadMore, by) ==
  /\ nIssued < cfg.budget
  /\ isFetchingRef' = TRUE
  /\ isLoadingMore' = (IF isLoadMore THEN TRUE ELSE isLoadingMore)
  /\ isLoading' = (IF isLoadMore THEN isLoading ELSE TRUE)
  /\ error' = Null
  /\ inflight' = inflight \cup
        {[id |-> nIssued + 1, isLoadMore |-> isLoadMore, params |-> Params, by |-> by]}
  /\ nIssued' = nIssued + 1

fetchDataSkip ==
  UNCHANGED <<isFetchingRef, isLoading, isLoadingMore, error, inflight, nIssued>>

\* Throw points that exist under the options in force: line 169 runs only in
\* cursor mode with a next-cursor extractor.
CanThrowAt(out) ==
  out = "getNextCursor" => (~isPagePagination /\ cfg.getNextCursor)

\* What fetchData returns once the fetcher has settled: the try block's
\* return after a success, the catch block's after a throw.
fetchDataReturn(req, out, r) ==
  LET newItems == [key |-> req.params, n |-> r.n]
      allItems == IF req.isLoadMore THEN Append(itemsRef, newItems) ELSE <<newItems>>
      stored == out \notin {"fetcher", "getData"}
      checked == stored /\ out \notin {"getNextCursor", "checkHasMore"}
  IN [itemsCount |-> ItemsLen(IF stored THEN allItems ELSE itemsRef),
      hasMore |-> IF checked THEN checkHasMore(r, allItems) ELSE hasMoreRef]

\* fetchData with a finally block that leaves isLoadingMore as it is.
fetchDataSettleKeepsLoadingMore(req, out, r) ==
  LET newItems == [key |-> req.params, n |-> r.n]
      allItems == IF req.isLoadMore THEN Append(itemsRef, newItems) ELSE <<newItems>>
      stored == out \notin {"fetcher", "getData"}
      advanced == stored /\ out # "getNextCursor"
      checked == advanced /\ out # "checkHasMore"
      moreAvailable == checkHasMore(r, allItems)
      ok == out = "none"
      itemsAfter == IF stored THEN allItems ELSE itemsRef
      moreAfter == IF checked THEN moreAvailable ELSE hasMoreRef
  IN
  /\ req \in inflight
  /\ CanThrowAt(out)
  /\ inflight' = inflight \ {req}
  /\ items' = itemsAfter
  /\ itemsRef' = itemsAfter
  /\ pageRef' = (IF advanced /\ isPagePagination THEN pageRef + 1 ELSE pageRef)
  /\ cursorRef' = (IF advanced /\ ~isPagePagination /\ cfg.getNextCursor
                   THEN r.next ELSE cursorRef)
  /\ totalRef' = (IF checked /\ StoresTotal THEN r.total ELSE totalRef)
  /\ hasMore' = moreAfter
  /\ hasMoreRef' = moreAfter
  /\ error' = (IF ok THEN error ELSE Err)
  /\ isLoading' = FALSE
  /\ isLoadingMore' = isLoadingMore
  /\ isFetchingRef' = FALSE
  /\ refreshPc' = (IF req.by = "refresh" THEN "idle" ELSE refreshPc)
  /\ luc' = (IF req.by = "loadUntilCount"
             THEN [luc EXCEPT !.pc = "ready", !.result = moreAfter] ELSE luc)
  /\ UNCHANGED <<cfg, enabled, mounted, rendered, isInitializedRef, nIssued>>

\* fetchData from the fetcher's settling to its return: the rest of the try
\* block, the catch block and the finally block.
fetchDataSettle(req, out, r) ==
  LET newItems == [key |-> req.params, n |-> r.n]
      allItems == IF req.isLoadMore THEN Append(itemsRef, newItems) ELSE <<newItems>>
      stored == out \notin {"fetcher", "getData"}
      advanced == stored /\ out # "getNextCursor"
      checked == advanced /\ out # "checkHasMore"
      moreAvailable == checkHasMore(r, allItems)
      ok == out = "none"
      itemsAfter == IF stored THEN allItems ELSE itemsRef
      moreAfter == IF checked THEN moreAvailable ELSE hasMoreRef
  IN
  /\ req \in inflight
  /\ CanThrowAt(out)
  /\ inflight' = inflight \ {req}
  /\ items' = itemsAfter
  /\ itemsRef' = itemsAfter
  /\ pageRef' = (IF advanced /\ isPagePagination THEN pageRef + 1 ELSE pageRef)
  /\ cursorRef' = (IF advanced /\ ~isPagePagination /\ cfg.getNextCursor
                   THEN r.next ELSE cursorRef)
  /\ totalRef' = (IF checked /\ StoresTotal THEN r.total ELSE totalRef)
  /\ hasMore' = moreAfter
  /\ hasMoreRef' = moreAfter
  /\ error' = (IF ok THEN error ELSE Err)
  /\ isLoading' = FALSE
  /\ isLoadingMore' = FALSE
  /\ isFetchingRef' = FALSE
  /\ refreshPc' = (IF req.by = "refresh" THEN "idle" ELSE refreshPc)
  /\ luc' = (IF req.by = "loadUntilCount"
             THEN [luc EXCEPT !.pc = "ready", !.result = moreAfter] ELSE luc)
  /\ UNCHANGED <<cfg, enabled, mounted, rendered, isInitializedRef, nIssued>>

\* --------------------------------------------------------------- loadMore
loadMore ==
  /\ IF ~hasMoreRef \/ rendered.isLoadingMore \/ rendered.isLoading
     THEN /\ fetchDataSkip
     ELSE IF fetchDataGuard(TRUE)
     THEN /\ fetchDataSkip
     ELSE /\ fetchDataIssue(TRUE, "loadMore")
  /\ UNCHANGED <<cfg, enabled, mounted, items, hasMore, rendered, pageRef, cursorRef,
                 totalRef, isInitializedRef, itemsRef, hasMoreRef, refreshPc, luc>>

\* ------------------------------------------------------------------ reset
\* The assignments of reset(), shared with refresh().
resetBody ==
  /\ items' = <<>>
  /\ hasMore' = TRUE
  /\ pageRef' = initialPage
  /\ cursorRef' = initialCursor
  /\ totalRef' = Null
  /\ isInitializedRef' = FALSE
  /\ itemsRef' = <<>>
  /\ hasMoreRef' = TRUE

\* reset() leaving the loading flags as they are.
resetKeepingFlags ==
  /\ resetBody
  /\ error' = Null
  /\ isFetchingRef' = FALSE
  /\ UNCHANGED <<isLoading, isLoadingMore>>
  /\ UNCHANGED <<cfg, enabled, mounted, rendered, inflight, nIssued, refreshPc, luc>>

\* reset() dropping the fetches that are outstanding.
resetCancelling ==
  /\ resetBody
  /\ error' = Null
  /\ isLoading' = FALSE
  /\ isLoadingMore' = FALSE
  /\ isFetchingRef' = FALSE
  /\ inflight' = {}
  /\ UNCHANGED <<cfg, enabled, mounted, rendered, nIssued, refreshPc, luc>>

reset ==
  /\ resetBody
  /\ error' = Null
  /\ isLoading' = FALSE
  /\ isLoadingMore' = FALSE
  /\ isFetchingRef' = FALSE
  /\ UNCHANGED <<cfg, enabled, mounted, rendered, inflight, nIssued, refreshPc, luc>>

\* ---------------------------------------------------------------- refresh
\* refresh() up to its await of setTimeout(resolve, 0).
refresh ==
  /\ refreshPc = "idle"
  /\ resetBody
  /\ error' = Null
  /\ isLoading' = FALSE
  /\ isLoadingMore' = FALSE
  /\ isFetchingRef' = FALSE
  /\ refreshPc' = "timer"
  /\ UNCHANGED <<cfg, enabled, mounted, rendered, inflight, nIssued, luc>>

\* refresh() after the timer: await fetchData(false).
refreshFetch ==
  /\ refreshPc = "timer"
  /\ IF fetchDataGuard(FALSE)
     THEN /\ fetchDataSkip
          /\ refreshPc' = "idle"
     ELSE /\ fetchDataIssue(FALSE, "refresh")
          /\ refreshPc' = "await"
  /\ UNCHANGED <<cfg, enabled, mounted, items, hasMore, rendered, pageRef, cursorRef,
                 totalRef, isInitializedRef, itemsRef, hasMoreRef, luc>>

\* --------------------------------------------------------- loadUntilCount
\* The loop of loadUntilCount from its condition to the next await (or to
\* the return), entered with `attempts` attempts made.
\* The loop without its attempts < maxAttempts condition.
lucLoopNoCap(target, maxAttempts, attempts, calls) ==
  IF ItemsLen(itemsRef) < target /\ hasMoreRef
  THEN IF fetchDataGuard(TRUE)
       THEN /\ fetchDataSkip
            /\ luc' = [pc |-> "ready", target |-> target, max |-> maxAttempts,
                       attempts |-> attempts, result |-> fetchDataEarly(TRUE).hasMore,
                       calls |-> calls]
       ELSE /\ fetchDataIssue(TRUE, "loadUntilCount")
            /\ luc' = [pc |-> "wait", target |-> target, max |-> maxAttempts,
                       attempts |-> attempts, result |-> Null, calls |-> calls + 1]
  ELSE /\ fetchDataSkip
       /\ luc' = LucIdle

lucLoop(target, maxAttempts, attempts, calls) ==
  IF ItemsLen(itemsRef) < target /\ hasMoreRef /\ attempts < maxAttempts
  THEN IF fetchDataGuard(TRUE)
       THEN /\ fetchDataSkip
            /\ luc' = [pc |-> "ready", target |-> target, max |-> maxAttempts,
                       attempts |-> attempts, result |-> fetchDataEarly(TRUE).hasMore,
                       calls |-> calls]
       ELSE /\ fetchDataIssue(TRUE, "loadUntilCount")
            /\ luc' = [pc |-> "wait", target |-> target, max |-> maxAttempts,
                       attempts |-> attempts, result |-> Null, calls |-> calls + 1]
  ELSE /\ fetchDataSkip
       /\ luc' = LucIdle

loadUntilCount(targetCount, maxAttempts) ==
  /\ luc.pc = "idle"
  /\ lucLoop(targetCount, maxAttempts, 0, 0)
  /\ UNCHANGED <<cfg, enabled, mounted, items, hasMore, rendered, pageRef, cursorRef,
                 totalRef, isInitializedRef, itemsRef, hasMoreRef, refreshPc>>

\* loadUntilCount resuming without attempts++.
lucResumeNoCount ==
  /\ luc.pc = "ready"
  /\ IF ~luc.result
     THEN /\ fetchDataSkip
          /\ luc' = LucIdle
     ELSE lucLoop(luc.target, luc.max, luc.attempts, luc.calls)
  /\ UNCHANGED <<cfg, enabled, mounted, items, hasMore, rendered, pageRef, cursorRef,
                 totalRef, isInitializedRef, itemsRef, hasMoreRef, refreshPc>>

\* loadUntilCount resuming after `await fetchData(true)`.
lucResume ==
  /\ luc.pc = "ready"
  /\ IF ~luc.result
     THEN /\ fetchDataSkip
          /\ luc' = LucIdle
     ELSE lucLoop(luc.target, luc.max, luc.attempts + 1, luc.calls)
  /\ UNCHANGED <<cfg, enabled, mounted, items, hasMore, rendered, pageRef, cursorRef,
                 totalRef, isInitializedRef, itemsRef, hasMoreRef, refreshPc>>

\* ----------------------------------------------------------------- render
\* A render of the hook with the enabled option `en`; depsChanged says that
\* fetchData's identity changed (one of the options it closes over did).
\* The initial-fetch effect runs on mount and when one of its dependencies
\* [enabled, fetchData] changed.
render(en, depsChanged) ==
  LET effectRuns == ~mounted \/ en # enabled \/ depsChanged
      fetches == effectRuns /\ en /\ ~isInitializedRef
  IN
  /\ rendered' = [isLoading |-> isLoading, isLoadingMore |-> isLoadingMore]
  /\ enabled' = en
  /\ mounted' = TRUE
  /\ isInitializedRef' = (IF fetches THEN TRUE ELSE isInitializedRef)
  /\ IF fetches /\ ~fetchDataGuard(FALSE)
     THEN /\ fetchDataIssue(FALSE, "effect")
     ELSE /\ fetchDataSkip
  /\ UNCHANGED <<cfg, items, hasMore, pageRef, cursorRef, totalRef, itemsRef,
                 hasMoreRef, refreshPc, luc>>

\* ---------------------------------------------------------- specification
\* useInfiniteList after construction.
ControllerInit(configs) ==
  /\ cfg \in configs
  /\ enabled = TRUE
  /\ mounted = FALSE
  /\ items = <<>>
  /\ isLoading = FALSE
  /\ isLoadingMore = FALSE
  /\ error = Null
  /\ hasMore = TRUE
  /\ rendered = [isLoading |-> FALSE, isLoadingMore |-> FALSE]
  /\ pageRef = initialPage
  /\ cursorRef = initialCursor
  /\ totalRef = Null
  /\ isFetchingRef = FALSE
  /\ isInitializedRef = FALSE
  /\ itemsRef = <<>>
  /\ hasMoreRef = TRUE
  /\ inflight = {}
  /\ nIssued = 0
  /\ refreshPc = "idle"
  /\ luc = LucIdle
  /\ op = NoOp

\* No scrollToIndexWithAutoLoad call is running.
SwalIdle == [pc |-> "idle", index |-> 0, align |-> "start", heights |-> <<>>, ch |-> 0]

\* No scroll offset has been written.
NotScrolled == [container |-> 0, window |-> 0]

\* useVirtualList after construction, with one of the given overscan options.
VirtualListInit(overscans) ==
  /\ itemHeights = <<>>
  /\ scrollTop = 0
  /\ containerHeight = 0
  /\ overscan \in overscans
  /\ useWindowScroll = FALSE
  /\ scrolled = NotScrolled
  /\ swal = SwalIdle
  /\ renderedHasMore = TRUE

InitWith(configs) == ControllerInit(configs) /\ VirtualListInit({DefaultOverscan})

Init == InitWith(Configs)

\* The fetcher's promise settles.  A rejection, or getData throwing, leaves
\* no response to look at.
Settle ==
  \E req \in inflight :
     \/ \E out \in {"fetcher", "getData"} : fetchDataSettle(req, out, NoResponse)
     \/ \E out \in ThrowPoints \ {"fetcher", "getData"}, r \in ResponsesFor(cfg) :
           fetchDataSettle(req, out, r)

\* A render: the parent passes enabled = en; with en unchanged, the effect's
\* other dependency (fetchData) may or may not have changed.
Render ==
  \E en \in BOOLEAN :
     \/ render(en, FALSE)
     \/ en = enabled /\ render(en, TRUE)

LoadUntilCount ==
  \E targetCount \in {45}, maxAttempts \in 1..MaxAttemptsArg :
     loadUntilCount(targetCount, maxAttempts)

\* The controller without loadUntilCount.  The operations are handed out by
\* the hook's first render, so they are called once it is mounted.
Next ==
  \/ Render /\ UNCHANGED <<op, vlVars, swal, renderedHasMore>>
  \/ mounted /\ loadMore /\ UNCHANGED <<op, vlVars, swal, renderedHasMore>>
  \/ mounted /\ reset /\ UNCHANGED <<op, vlVars, swal, renderedHasMore>>
  \/ mounted /\ refresh /\ UNCHANGED <<op, vlVars, swal, renderedHasMore>>
  \/ refreshFetch /\ UNCHANGED <<op, vlVars, swal, renderedHasMore>>
  \/ Settle /\ UNCHANGED <<op, vlVars, swal, renderedHasMore>>

Spec == Init /\ [][Next]_vars

\* The continuation of `await fetchData(true)` in loadUntilCount is a
\* microtask: once the awaited promise has resolved it runs before any
\* render, event handler or other promise reaction.
MicrotaskPending == luc.pc = "ready"

\* A return value that reports hasMore without reading hasMoreRef.
lucReturnedOptimistic(target, maxAttempts, calls) ==
  [name |-> "loadUntilCount", target |-> target, max |-> maxAttempts, calls |-> calls,
   ret |-> [itemsCount |-> ItemsLen(itemsRef), hasMore |-> TRUE]]

\* What loadUntilCount returns (line 220), with the call's arguments and the
\* number of fetcher calls it made.
lucReturned(target, maxAttempts, calls) ==
  [name |-> "loadUntilCount", target |-> target, max |-> maxAttempts, calls |-> calls,
   ret |-> [itemsCount |-> ItemsLen(itemsRef), hasMore |-> hasMoreRef]]

LoadUntilCountObserved ==
  \E targetCount \in {45}, maxAttempts \in 1..MaxAttemptsArg :
     /\ loadUntilCount(targetCount, maxAttempts)
     /\ op' = (IF luc'.pc = "idle" THEN lucReturned(targetCount, maxAttempts, 0) ELSE NoOp)

lucResumeObserved ==
  /\ lucResume
  /\ op' = (IF luc'.pc = "idle" THEN lucReturned(luc.target, luc.max, luc.calls) ELSE NoOp)

\* The controller with loadUntilCount in place of refresh; op records what a
\* loadUntilCount call returned in the step in which it returns.
NextLuc ==
  \/ ~MicrotaskPending /\ Render /\ op' = NoOp /\ UNCHANGED <<vlVars, swal, renderedHasMore>>
  \/ ~MicrotaskPending /\ mounted /\ loadMore /\ op' = NoOp /\ UNCHANGED <<vlVars, swal, renderedHasMore>>
  \/ ~MicrotaskPending /\ mounted /\ reset /\ op' = NoOp /\ UNCHANGED <<vlVars, swal, renderedHasMore>>
  \/ ~MicrotaskPending /\ Settle /\ op' = NoOp /\ UNCHANGED <<vlVars, swal, renderedHasMore>>
  \/ ~MicrotaskPending /\ mounted /\ LoadUntilCountObserved /\ UNCHANGED <<vlVars, swal, renderedHasMore>>
  \/ lucResumeObserved /\ UNCHANGED <<vlVars, swal, renderedHasMore>>

SpecLuc == Init /\ [][NextLuc]_vars

\* --------------------------------------------------- fair specification
\* The controller with loadMore, loadUntilCount and refresh, under page
\* pagination with the default rules.  Every fetcher call settles, a
\* resolved await resumes and the timer of refresh fires.  A settling and
\* the timer are tasks, which wait while microtasks run and are taken once
\* the microtask queue is empty: they are strongly fair.
LiveRender == ~MicrotaskPending /\ render(TRUE, FALSE) /\ op' = NoOp
                 /\ UNCHANGED <<vlVars, swal, renderedHasMore>>
LiveLoadMore == ~MicrotaskPending /\ mounted /\ loadMore /\ op' = NoOp
                   /\ UNCHANGED <<vlVars, swal, renderedHasMore>>
LiveRefresh == ~MicrotaskPending /\ mounted /\ refresh /\ op' = NoOp
                  /\ UNCHANGED <<vlVars, swal, renderedHasMore>>
LiveRefreshFetch == ~MicrotaskPending /\ refreshFetch /\ op' = NoOp
                       /\ UNCHANGED <<vlVars, swal, renderedHasMore>>
LiveSettle == ~MicrotaskPending /\ Settle /\ op' = NoOp
                 /\ UNCHANGED <<vlVars, swal, renderedHasMore>>
LiveLoadUntilCount == ~MicrotaskPending /\ mounted /\ LoadUntilCountObserved
                         /\ UNCHANGED <<vlVars, swal, renderedHasMore>>
LiveLucResume == lucResumeObserved /\ UNCHANGED <<vlVars, swal, renderedHasMore>>

InitLive ==
  InitWith({CHOOSE c \in Configs : c.mode = "page" /\ ~c.hasMoreFn /\ ~c.getTotal})

NextLive ==
  \/ LiveRender
  \/ LiveLoadMore
  \/ LiveRefresh
  \/ LiveRefreshFetch
  \/ LiveSettle
  \/ LiveLoadUntilCount
  \/ LiveLucResume

SpecLive ==
  /\ InitLive /\ [][NextLive]_vars
  /\ SF_vars(LiveSettle) /\ WF_vars(LiveLucResume) /\ SF_vars(LiveRefreshFetch)

\* ------------------------------------------------- observed specification
\* Every combination of supplied extraction functions, also those the mode
\* or a higher-priority rule never consults.
ObservedConfigs ==
  { c \in AllConfigs : c.initialCursor = (IF c.mode = "cursor" THEN "abc" ELSE Null) }

\* Settle, with any response, recording the outcome and what fetchData
\* returns, and after a success the response.
SettleObserved ==
  \E req \in inflight :
     \/ \E out \in {"fetcher", "getData"} :
           /\ fetchDataSettle(req, out, NoResponse)
           /\ op' = [name |-> "settle", out |-> out, isLoadMore |-> req.isLoadMore,
                     r |-> NoResponse, ret |-> fetchDataReturn(req, out, NoResponse)]
     \/ \E out \in ThrowPoints \ {"fetcher", "getData"}, r \in Responses :
           /\ fetchDataSettle(req, out, r)
           /\ op' = [name |-> "settle", out |-> out, isLoadMore |-> req.isLoadMore,
                     r |-> (IF out = "none" THEN r ELSE NoResponse),
                     ret |-> fetchDataReturn(req, out, r)]

\* loadMore returns without awaiting a fetch: its own check (line 206) or
\* one of fetchData's early returns (lines 137-138) applies.
loadMoreReturnsEarly ==
  ~hasMoreRef \/ rendered.isLoadingMore \/ rendered.isLoading \/ fetchDataGuard(TRUE)

\* What loadMore returns then.
loadMoreReturn ==
  IF ~hasMoreRef \/ rendered.isLoadingMore \/ rendered.isLoading
  THEN [itemsCount |-> ItemsLen(itemsRef), hasMore |-> hasMoreRef]
  ELSE fetchDataEarly(TRUE)

\* loadMore, recording what it returns when it returns early and whether a
\* fetcher call was outstanding then.
LoadMoreObserved ==
  /\ loadMore
  /\ op' = (IF loadMoreReturnsEarly
            THEN [name |-> "loadMore", busy |-> inflight # {}, ret |-> loadMoreReturn]
            ELSE NoOp)

\* The hook stays enabled and its options keep their identities: the effect
\* runs on mount only.
NextObserved ==
  \/ render(TRUE, FALSE) /\ op' = NoOp /\ UNCHANGED <<vlVars, swal, renderedHasMore>>
  \/ mounted /\ LoadMoreObserved /\ UNCHANGED <<vlVars, swal, renderedHasMore>>
  \/ SettleObserved /\ UNCHANGED <<vlVars, swal, renderedHasMore>>

SpecObserved == InitWith(ObservedConfigs) /\ [][NextObserved]_vars


\* ---------------------------------------------- recorded specification
\* The callbacks fetchData invokes for a completion with outcome out:
\* onSuccess is the last call of the try block (line 178), reached when
\* nothing before it threw, and it may throw itself; onError is called by
\* the catch block (line 183).
onSuccessCalled(out) == out \in {"none", "onSuccess"}
onErrorCalled(out) == out # "none"

\* Settle, recording the request that settled, the outcome and the response.
SettleRecorded ==
  \E req \in inflight :
     \/ \E out \in {"fetcher", "getData"} :
           /\ fetchDataSettle(req, out, NoResponse)
           /\ op' = [name |-> "settle", out |-> out, req |-> req, r |-> NoResponse]
     \/ \E out \in ThrowPoints \ {"fetcher", "getData"}, r \in ResponsesFor(cfg) :
           /\ fetchDataSettle(req, out, r)
           /\ op' = [name |-> "settle", out |-> out, req |-> req, r |-> r]

\* The controller with reset and refresh, the hook staying enabled; op
\* records each completion and each call of reset and refresh.
NextRecorded ==
  \/ render(TRUE, FALSE) /\ op' = NoOp /\ UNCHANGED <<vlVars, swal, renderedHasMore>>
  \/ mounted /\ loadMore /\ op' = NoOp /\ UNCHANGED <<vlVars, swal, renderedHasMore>>
  \/ mounted /\ reset /\ op' = [name |-> "reset"] /\ UNCHANGED <<vlVars, swal, renderedHasMore>>
  \/ mounted /\ refresh /\ op' = [name |-> "refresh"] /\ UNCHANGED <<vlVars, swal, renderedHasMore>>
  \/ refreshFetch /\ op' = NoOp /\ UNCHANGED <<vlVars, swal, renderedHasMore>>
  \/ SettleRecorded /\ UNCHANGED <<vlVars, swal, renderedHasMore>>

SpecRecorded == Init /\ [][NextRecorded]_vars

\* ---------------------------------------------------------- useVirtualList
\* Heights getItemHeight can return.
Heights == {0, 2, 5}

Max(a, b) == IF a >= b THEN a ELSE b
Min(a, b) == IF a <= b THEN a ELSE b

RECURSIVE OffsetOf(_)
\* currentOffset when the position loop reaches index i (0-based).
OffsetOf(i) == IF i = 0 THEN 0 ELSE OffsetOf(i - 1) + itemHeights[i]

itemsLength == Len(itemHeights)
totalHeight == OffsetOf(itemsLength)

\* The positions of a loop that never advances currentOffset.
itemPositionsNoAccumulate ==
  [i \in 0..(itemsLength - 1) |->
     [start |-> 0, end |-> itemHeights[i + 1], size |-> itemHeights[i + 1]]]

\* itemPositions, indexed from 0 as in the source.
itemPositions ==
  [i \in 0..(itemsLength - 1) |->
     [start |-> OffsetOf(i), end |-> OffsetOf(i) + itemHeights[i + 1],
      size |-> itemHeights[i + 1]]]

RECURSIVE findStartLoop(_, _, _)
\* The while loop of findStartIndex and the return after it.
findStartLoop(low, high, st) ==
  IF low <= high
  THEN LET mid == (low + high) \div 2
           pos == itemPositions[mid]
       IN IF pos.end < st THEN findStartLoop(mid + 1, high, st)
          ELSE IF pos.start > st THEN findStartLoop(low, mid - 1, st)
          ELSE mid
  ELSE Max(0, low)

findStartIndex(st) == findStartLoop(0, itemsLength - 1, st)

RECURSIVE findEndLoop(_, _, _)
\* The while loop of findEndIndex and the return after it.
findEndLoop(low, high, targetEnd) ==
  IF low <= high
  THEN LET mid == (low + high) \div 2
           pos == itemPositions[mid]
       IN IF pos.start > targetEnd THEN findEndLoop(low, mid - 1, targetEnd)
          ELSE IF pos.end < targetEnd THEN findEndLoop(mid + 1, high, targetEnd)
          ELSE mid
  ELSE Min(itemsLength - 1, low)

\* findEndIndex searching for the scroll offset itself, not the far edge
\* of the viewport.
findEndIndexAtOffset(st, ch) == findEndLoop(0, itemsLength - 1, st)

findEndIndex(st, ch) == findEndLoop(0, itemsLength - 1, st + ch)

\* The items from startIndex to endIndex that have a position.
VirtualItemsFrom(startIndex, endIndex) ==
  IF endIndex < startIndex THEN <<>>
  ELSE [k \in 1..(endIndex - startIndex + 1) |->
          LET i == startIndex + k - 1
          IN [index |-> i, start |-> itemPositions[i].start,
              end |-> itemPositions[i].end, size |-> itemPositions[i].size]]

\* virtualItems with no overscan after the end index.
virtualItemsNoOverscanAfter ==
  IF itemsLength = 0 \/ containerHeight = 0 THEN <<>>
  ELSE VirtualItemsFrom(Max(0, findStartIndex(scrollTop) - overscan),
                        Min(itemsLength - 1, findEndIndex(scrollTop, containerHeight)))

virtualItems ==
  IF itemsLength = 0 \/ containerHeight = 0 THEN <<>>
  ELSE VirtualItemsFrom(Max(0, findStartIndex(scrollTop) - overscan),
                        Min(itemsLength - 1,
                            findEndIndex(scrollTop, containerHeight) + overscan))

\* The items prop changes: one more item has loaded, or the list was reset.
setItems ==
  /\ \/ itemsLength < MaxItems /\ \E ht \in Heights : itemHeights' = Append(itemHeights, ht)
     \/ itemHeights # <<>> /\ itemHeights' = <<>>
  /\ UNCHANGED <<scrollTop, containerHeight, overscan, useWindowScroll, scrolled>>

\* handleScroll, of a list used without an onNearEnd callback.
handleScroll ==
  /\ \E newScrollTop \in 0..MaxScrollTop : scrollTop' = newScrollTop
  /\ UNCHANGED <<itemHeights, containerHeight, overscan, useWindowScroll, scrolled>>

\* The resize observer's callback / handleResize.
handleResize ==
  /\ \E height \in 0..MaxContainerHeight : containerHeight' = height
  /\ UNCHANGED <<itemHeights, scrollTop, overscan, useWindowScroll, scrolled>>

controllerVars ==
  <<cfg, enabled, mounted, items, isLoading, isLoadingMore, error, hasMore, rendered,
    pageRef, cursorRef, totalRef, isFetchingRef, isInitializedRef, itemsRef,
    hasMoreRef, inflight, nIssued, refreshPc, luc, op>>

\* The windowing hook on its own, under every overscan option.
InitWindow ==
  /\ ControllerInit({CHOOSE c \in Configs : c.mode = "page" /\ ~c.hasMoreFn /\ ~c.getTotal})
  /\ VirtualListInit(0..MaxOverscan)

NextWindow ==
  \/ setItems /\ UNCHANGED <<controllerVars, swal, renderedHasMore>>
  \/ handleScroll /\ UNCHANGED <<controllerVars, swal, renderedHasMore>>
  \/ handleResize /\ UNCHANGED <<controllerVars, swal, renderedHasMore>>

SpecWindow == InitWindow /\ [][NextWindow]_vars

\* ------------------------------------------------------------ scrollToIndex
Aligns == {"start", "center", "end"}
\* window.scrollY + rect.top, the container's top on the page.
ContainerTops == {3}

RECURSIVE StartIn(_, _)
\* The start of the entry at 0-based index i in the positions built from
\* heights.
StartIn(heights, i) == IF i = 0 THEN 0 ELSE StartIn(heights, i - 1) + heights[i]

\* Twice targetScrollTop (lines 422-436) for a scrollToIndex whose closure
\* holds the positions of heights and the container height ch.
targetScrollTop2(heights, ch, index, align) ==
  LET start == StartIn(heights, index)
      size == heights[index + 1]
  IN CASE align = "start" -> 2 * start
       [] align = "center" -> 2 * start - ch + size
       [] align = "end" -> 2 * (start + size) - 2 * ch

\* scrollToIndex clamping an index outside the table into it.
scrollToIndexOfClamped(heights, ch, index, align, containerTop) ==
  IF Len(heights) = 0
  THEN UNCHANGED scrolled
  ELSE LET i == Max(0, Min(Len(heights) - 1, index))
           t2 == targetScrollTop2(heights, ch, i, align)
       IN IF useWindowScroll
          THEN scrolled' = [scrolled EXCEPT !.window = 2 * containerTop + Max(0, t2)]
          ELSE scrolled' = [scrolled EXCEPT !.container = Max(0, t2)]

\* scrollToIndex writing the target without Math.max(0, ...).
scrollToIndexOfUnclamped(heights, ch, index, align, containerTop) ==
  IF Len(heights) = 0 \/ index < 0 \/ index >= Len(heights)
  THEN UNCHANGED scrolled
  ELSE LET t2 == targetScrollTop2(heights, ch, index, align)
       IN IF useWindowScroll
          THEN scrolled' = [scrolled EXCEPT !.window = 2 * containerTop + t2]
          ELSE scrolled' = [scrolled EXCEPT !.container = t2]

\* The scrollToIndex function of the render that saw the items of heights
\* and the container height ch.  The container element exists exactly when
\* there are items (src/types/index.ts line 352).
scrollToIndexOf(heights, ch, index, align, containerTop) ==
  IF Len(heights) = 0 \/ index < 0 \/ index >= Len(heights)
  THEN UNCHANGED scrolled
  ELSE LET t2 == targetScrollTop2(heights, ch, index, align)
       IN IF useWindowScroll
          THEN scrolled' = [scrolled EXCEPT !.window = 2 * containerTop + Max(0, t2)]
          ELSE scrolled' = [scrolled EXCEPT !.container = Max(0, t2)]

\* scrollToIndex of the current render.
scrollToIndex(index, align, containerTop) ==
  /\ scrollToIndexOf(itemHeights, containerHeight, index, align, containerTop)
  /\ UNCHANGED <<itemHeights, scrollTop, containerHeight, overscan, useWindowScroll>>

\* The controller's variables without the observation.
hookVars ==
  <<cfg, enabled, mounted, items, isLoading, isLoadingMore, error, hasMore, rendered,
    pageRef, cursorRef, totalRef, isFetchingRef, isInitializedRef, itemsRef,
    hasMoreRef, inflight, nIssued, refreshPc, luc>>

\* scrollToIndex called with any index and alignment; op records the call.
ScrollToIndexObserved ==
  \E index \in -1..MaxItems, align \in Aligns, containerTop \in ContainerTops :
     /\ scrollToIndex(index, align, containerTop)
     /\ op' = [name |-> "scrollToIndex", index |-> index, align |-> align]

\* useVirtualList in either scroll mode, its scrollToIndex being called.
InitScroll ==
  /\ ControllerInit({CHOOSE c \in Configs : c.mode = "page" /\ ~c.hasMoreFn /\ ~c.getTotal})
  /\ itemHeights = <<>>
  /\ scrollTop = 0
  /\ containerHeight = 0
  /\ overscan = DefaultOverscan
  /\ useWindowScroll \in BOOLEAN
  /\ scrolled = NotScrolled
  /\ swal = SwalIdle
  /\ renderedHasMore = TRUE

NextScroll ==
  \/ setItems /\ op' = NoOp /\ UNCHANGED <<hookVars, swal, renderedHasMore>>
  \/ handleResize /\ op' = NoOp /\ UNCHANGED <<hookVars, swal, renderedHasMore>>
  \/ ScrollToIndexObserved /\ UNCHANGED <<hookVars, swal, renderedHasMore>>

SpecScroll == InitScroll /\ [][NextScroll]_vars

\* ------------------------------------------------ InfiniteListInner
\* The virtualized list component: useInfiniteList feeding useVirtualList,
\* and scrollToIndexWithAutoLoad on top of both.  itemHeight is the default
\* number, so every item has that height.

\* Indices handed to scrollToIndexWithAutoLoad.
SwalIndices == {2, 22}

\* A render of the component: the hook renders, and useVirtualList is given
\* the items of this render.
componentRender ==
  /\ render(TRUE, FALSE)
  /\ itemHeights' = [i \in 1..ItemsLen(items) |-> DefaultItemHeight]
  /\ renderedHasMore' = hasMore
  /\ UNCHANGED <<scrollTop, containerHeight, overscan, useWindowScroll, scrolled, swal>>

\* The resize observer of the container element, which is rendered while
\* there are items.
containerResize ==
  /\ itemsLength > 0
  /\ handleResize

\* scrollToIndexWithAutoLoad after `await loadUntilCount(targetCount)`
\* (lines 294-305), for the call s and the result it was given: the next
\* position of the call.
swalAfterLoad(s, result) ==
  IF result.itemsCount <= s.index THEN SwalIdle ELSE [s EXCEPT !.pc = "timer"]

\* scrollToIndexWithAutoLoad loading also for an index that is loaded.
scrollToIndexWithAutoLoadAlwaysLoads(index, align, containerTop) ==
  /\ swal.pc = "idle"
  /\ loadUntilCount(index + 1, DefaultMaxAttempts)
  /\ LET s == [pc |-> "await", index |-> index, align |-> align,
                heights |-> itemHeights, ch |-> containerHeight]
     IN swal' = (IF luc'.pc = "idle"
                 THEN swalAfterLoad(s, lucReturned(index + 1, DefaultMaxAttempts, 0).ret)
                 ELSE s)
  /\ UNCHANGED vlVars

\* scrollToIndexWithAutoLoad(index, align) of the current render, up to its
\* return or to the point where the awaited loadUntilCount awaits a fetch.
\* The call keeps the scrollToIndex of the render it was created in, and
\* with it that render's positions and container height.
scrollToIndexWithAutoLoad(index, align, containerTop) ==
  /\ swal.pc = "idle"
  /\ IF index < itemsLength
     THEN /\ scrollToIndex(index, align, containerTop)
          /\ UNCHANGED <<hookVars, swal>>
     ELSE /\ loadUntilCount(index + 1, DefaultMaxAttempts)
          /\ LET s == [pc |-> "await", index |-> index, align |-> align,
                        heights |-> itemHeights, ch |-> containerHeight]
             IN swal' = (IF luc'.pc = "idle"
                         THEN swalAfterLoad(s, lucReturned(index + 1, DefaultMaxAttempts,
                                                           0).ret)
                         ELSE s)
          /\ UNCHANGED vlVars

\* The awaited loadUntilCount resumes after a fetch; when it returns, the
\* call that awaits it resumes with its result.
swalLoadResume ==
  /\ swal.pc = "await"
  /\ lucResume
  /\ swal' = (IF luc'.pc = "idle"
              THEN swalAfterLoad(swal, lucReturned(luc.target, luc.max, luc.calls).ret)
              ELSE swal)
  /\ UNCHANGED vlVars

\* The setTimeout(..., 50) callback: scrollToIndex as the call captured it.
swalTimer(containerTop) ==
  /\ swal.pc = "timer"
  /\ scrollToIndexOf(swal.heights, swal.ch, swal.index, swal.align, containerTop)
  /\ swal' = SwalIdle
  /\ UNCHANGED <<hookVars, itemHeights, scrollTop, containerHeight, overscan,
                 useWindowScroll>>

\* op records the call and its arguments.
ScrollToIndexWithAutoLoadObserved ==
  \E index \in SwalIndices, align \in Aligns, containerTop \in ContainerTops :
     /\ scrollToIndexWithAutoLoad(index, align, containerTop)
     /\ op' = [name |-> "scrollToIndexWithAutoLoad", index |-> index, align |-> align]

\* op records the index of the call when the load it awaited returned.
swalLoadResumeObserved ==
  /\ swalLoadResume
  /\ op' = (IF luc'.pc = "idle"
            THEN [name |-> "swalAfterLoad", index |-> swal.index,
                  itemsCount |-> ItemsLen(itemsRef)]
            ELSE NoOp)

swalTimerObserved ==
  \E containerTop \in ContainerTops :
     /\ swalTimer(containerTop)
     /\ op' = [name |-> "swalTimer", index |-> swal.index, align |-> swal.align]

\* The component under page pagination with the default extraction rules.
InitList ==
  InitWith({CHOOSE c \in Configs : c.mode = "page" /\ ~c.hasMoreFn /\ ~c.getTotal})

NextList ==
  \/ ~MicrotaskPending /\ componentRender /\ op' = NoOp
  \/ ~MicrotaskPending /\ containerResize /\ op' = NoOp /\ UNCHANGED <<hookVars, swal, renderedHasMore>>
  \/ ~MicrotaskPending /\ Settle /\ op' = NoOp /\ UNCHANGED <<vlVars, swal, renderedHasMore>>
  \/ ~MicrotaskPending /\ mounted /\ ScrollToIndexWithAutoLoadObserved
        /\ UNCHANGED renderedHasMore
  \/ swalLoadResumeObserved /\ UNCHANGED renderedHasMore
  \/ ~MicrotaskPending /\ swalTimerObserved /\ UNCHANGED renderedHasMore

SpecList == InitList /\ [][NextList]_vars

\* ------------------------------------------------- the near-end trigger
\* handleLoadMore of the last render (src/types/index.ts lines 256-261).
handleLoadMore ==
  IF ~rendered.isLoading /\ ~rendered.isLoadingMore /\ renderedHasMore
  THEN loadMore
  ELSE UNCHANGED hookVars

\* container.scrollHeight - newScrollTop - container.clientHeight for a
\* container of height ch whose content is the list as it was rendered.
distanceFromBottom(newScrollTop, ch) == Max(totalHeight, ch) - newScrollTop - ch

\* The scroll offsets of the events: the top and the bottom of the list.
ScrollOffsets == {0, Max(0, totalHeight - containerHeight)}

\* handleScroll of the container (lines 490-504) with onNearEnd =
\* handleLoadMore.  The listener hangs on the container element, which is
\* rendered while there are items.
handleScrollNearEnd(newScrollTop) ==
  /\ itemsLength > 0
  /\ scrollTop' = newScrollTop
  /\ IF distanceFromBottom(newScrollTop, containerHeight) < DefaultThreshold
     THEN handleLoadMore
     ELSE UNCHANGED hookVars
  /\ UNCHANGED <<itemHeights, containerHeight, overscan, useWindowScroll, scrolled>>

\* op records whether the event was near the end and whether the handler
\* called onNearEnd.
ScrollObserved ==
  \E newScrollTop \in ScrollOffsets :
     /\ handleScrollNearEnd(newScrollTop)
     /\ LET near == distanceFromBottom(newScrollTop, containerHeight) < DefaultThreshold
        IN op' = [name |-> "scroll", near |-> near, onNearEnd |-> near]

\* The resize observer's callback only stores the height (lines 533-538).
ResizeObserved ==
  /\ containerResize
  /\ UNCHANGED hookVars
  /\ op' = [name |-> "resize",
            near |-> distanceFromBottom(scrollTop, containerHeight') < DefaultThreshold,
            onNearEnd |-> FALSE]

\* A finite backend: two pages, 25 items, under page pagination; one page
\* of 20 items, with no next cursor, under cursor pagination.
BackendPageSizes == <<DefaultLimit, 5>>

Backend(params) ==
  IF isPagePagination
  THEN [n |-> (IF params.page <= Len(BackendPageSizes)
               THEN BackendPageSizes[params.page] ELSE 0),
        total |-> 45, next |-> Null, more |-> TRUE]
  ELSE [n |-> (IF params.cursor = "abc" THEN DefaultLimit ELSE 0),
        total |-> 45, next |-> Null, more |-> TRUE]

\* The fetcher's promise settles with the backend's answer, or rejects, or
\* one of the calls after it throws.
SettleBackend ==
  \E req \in inflight, out \in ThrowPoints :
     fetchDataSettle(req, out, IF out \in {"fetcher", "getData"} THEN NoResponse
                               ELSE Backend(req.params))

\* The virtualized component in front of the finite backend, under page
\* pagination with the default rules and under cursor pagination with a
\* next-cursor extractor.
NearEndConfigs ==
  { c \in Configs : ~c.hasMoreFn /\ ~c.getTotal /\ (c.mode = "cursor" => c.getNextCursor) }

InitNearEnd == InitWith(NearEndConfigs)

NextNearEnd ==
  \/ componentRender /\ op' = NoOp
  \/ ResizeObserved /\ UNCHANGED <<swal, renderedHasMore>>
  \/ ScrollObserved /\ UNCHANGED <<swal, renderedHasMore>>
  \/ SettleBackend /\ op' = NoOp /\ UNCHANGED <<vlVars, swal, renderedHasMore>>

SpecNearEnd == InitNearEnd /\ [][NextNearEnd]_vars

\* The same component with reset and refresh called through its ref, and
\* one more fetcher call explored.
InitTrigger ==
  InitWith({[c EXCEPT !.budget = MaxFetches + 1] :
              c \in {d \in NearEndConfigs : d.mode = "page"}})

NextTrigger ==
  \/ componentRender /\ op' = NoOp
  \/ ScrollObserved /\ UNCHANGED <<swal, renderedHasMore>>
  \/ SettleBackend /\ op' = NoOp /\ UNCHANGED <<vlVars, swal, renderedHasMore>>
  \/ mounted /\ reset /\ op' = NoOp /\ UNCHANGED <<vlVars, swal, renderedHasMore>>
  \/ mounted /\ refresh /\ op' = NoOp /\ UNCHANGED <<vlVars, swal, renderedHasMore>>
  \/ refreshFetch /\ op' = NoOp /\ UNCHANGED <<vlVars, swal, renderedHasMore>>

SpecTrigger == InitTrigger /\ [][NextTrigger]_vars

\* ----------------------------------------------------------------- claims
\* The state reset() establishes.
ResetState ==
  /\ items = <<>> /\ itemsRef = <<>>
  /\ error = Null
  /\ ~isLoading /\ ~isLoadingMore
  /\ hasMore /\ hasMoreRef
  /\ ~isFetchingRef
  /\ pageRef = initialPage
  /\ cursorRef = initialCursor

\* A step in which a fetch that set the error slot to null fails: only the
\* catch block of fetchData stores an error.
FailingSettle == error = Null /\ error' = Err

\* A step that is reset(), or the reset() refresh() starts with.
ResetStep == itemsRef' = <<>> /\ pageRef' = initialPage /\ cursorRef' = initialCursor

\* C1: at every instant at most one fetcher call of the controller is
\* outstanding, whatever the interleaving of loadMore, reset, refresh, the
\* initial fetch and the completions.
C1_AtMostOneOutstanding == Cardinality(inflight) <= 1

\* C2: loadMore called while a fetch is in flight, or while hasMore is
\* false, does not call the fetcher: a step in which loadMore issues a
\* request starts with no request outstanding and hasMore true.
C2_LoadMoreNoOpWhenBusy ==
  [][\A q \in inflight' \ inflight :
        q.by = "loadMore" => (inflight = {} /\ hasMoreRef /\ hasMore)]_vars

\* C3: between two resets items.length never decreases: a step that makes
\* the item sequence shorter is a reset, which empties it.
C3_ItemsNeverShrink ==
  [][ItemsLen(itemsRef') >= ItemsLen(itemsRef) \/ itemsRef' = <<>>]_vars

\* C4: when a fetch fails, the error is stored and items, page and cursor
\* are as they were before the failure.
C4_FailureKeepsData ==
  [][FailingSettle =>
       (items' = items /\ itemsRef' = itemsRef /\ pageRef' = pageRef
        /\ cursorRef' = cursorRef)]_vars

\* C5: after each successful fetch hasMore is the custom predicate's answer
\* if one is supplied; else, in cursor mode with a next-cursor extractor,
\* whether the next cursor is neither null nor undefined; else, in page mode
\* with a total extractor, whether the accumulated item count is below the
\* total; else whether the response carries at least limit items.  The
\* state, the ref and the returned snapshot agree on it.
C5_HasMorePriority ==
  (op.name = "settle" /\ op.out = "none") =>
     /\ hasMore = hasMoreRef
     /\ op.ret = [itemsCount |-> ItemsLen(itemsRef), hasMore |-> hasMoreRef]
     /\ cfg.hasMoreFn => (hasMoreRef <=> op.r.more)
     /\ (~cfg.hasMoreFn /\ cfg.mode = "cursor" /\ cfg.getNextCursor)
           => (hasMoreRef <=> op.r.next \notin {Null, Undefined})
     /\ (~cfg.hasMoreFn /\ cfg.mode = "page" /\ cfg.getTotal)
           => (hasMoreRef <=> ItemsLen(itemsRef) < op.r.total)
     /\ (/\ ~cfg.hasMoreFn
         /\ ~(cfg.mode = "cursor" /\ cfg.getNextCursor)
         /\ ~(cfg.mode = "page" /\ cfg.getTotal))
           => (hasMoreRef <=> op.r.n >= DefaultLimit)

\* A second page has been appended, the custom predicate said no although
\* the response carried a next cursor, and hasMore is false.
C5_Witness ==
  /\ op.name = "settle" /\ op.out = "none" /\ op.isLoadMore
  /\ cfg.hasMoreFn /\ cfg.mode = "cursor" /\ cfg.getNextCursor
  /\ op.r.more = FALSE /\ op.r.next = "abc"
  /\ Len(itemsRef) = 2
  /\ ~hasMoreRef

\* C6: in page mode the page counter changes only at a successful fetch
\* completion, by exactly +1, or at a reset, back to initialPage; and the
\* page sent in a request is the current counter.
C6_PageOnlyOnSuccess ==
  [][isPagePagination =>
       /\ pageRef' # pageRef =>
             (ResetStep \/ (pageRef' = pageRef + 1 /\ ~FailingSettle))
       /\ \A q \in inflight' \ inflight : q.params.page = pageRef]_vars

\* C7: in cursor mode the cursor changes only when a fetch succeeds or at a
\* reset, to initialCursor; a failed fetch never changes it; and a request
\* carries the current cursor.
C7_CursorOnlyOnSuccess ==
  [][~isPagePagination =>
       /\ cursorRef' # cursorRef => (ResetStep \/ ~FailingSettle)
       /\ \A q \in inflight' \ inflight : q.params.cursor = cursorRef]_vars

\* C8: after reset(), as long as no fetch is issued, the controller stays
\* in the state reset() establishes: a step that does not call the
\* fetcher leaves that state as it is.
C8_ResetStatePersists ==
  [][(ResetState /\ nIssued' = nIssued) => ResetState']_vars

\* C9: refresh() issues exactly one fetch, the initial one, after its reset;
\* and when it resolves without an error stored, items holds exactly the
\* response to the request for the initial page/cursor and the page has
\* advanced exactly once.
C9_RefreshFetchesInitialPage ==
  [][/\ (refreshPc = "timer" /\ refreshPc' # "timer") =>
          /\ refreshPc' = "await"
          /\ \E q \in inflight' \ inflight :
                q.by = "refresh" /\ ~q.isLoadMore /\ pageRef = initialPage
                /\ cursorRef = initialCursor
     /\ (refreshPc = "await" /\ refreshPc' = "idle" /\ error' = Null) =>
          /\ Len(itemsRef') = 1
          /\ isPagePagination =>
                (itemsRef'[1].key.page = initialPage /\ pageRef' = initialPage + 1)
          /\ ~isPagePagination => itemsRef'[1].key.cursor = initialCursor]_vars

\* C10: the automatic initial fetch is issued once per controller instance
\* and never again: the effect never has two fetcher calls of its own.
C10_OneAutomaticFetch ==
  Cardinality({q \in inflight : q.by = "effect"}) <= 1

\* C11: one loadUntilCount(target, maxAttempts) call makes at most
\* maxAttempts fetcher calls, while it runs and when it returns; and when it
\* returns short of the target with hasMore still true and no fetch in
\* flight, it has made exactly maxAttempts calls (the attempt cap ended it).
C11_LucAtMostMaxAttempts ==
  /\ luc.pc # "idle" => luc.calls <= luc.max
  /\ op.name = "loadUntilCount" =>
        /\ op.calls <= op.max
        /\ (op.ret.hasMore /\ op.ret.itemsCount < op.target /\ ~isFetchingRef)
              => op.calls = op.max

\* loadUntilCount(45, MaxAttemptsArg) started on an empty list, every fetch
\* bringing 20 items with hasMore true, has returned after MaxAttemptsArg
\* fetches with 20 * MaxAttemptsArg items and hasMore true.
C11_Witness ==
  /\ op.name = "loadUntilCount"
  /\ op.max = MaxAttemptsArg /\ op.calls = MaxAttemptsArg
  /\ Len(itemsRef) = MaxAttemptsArg
  /\ \A i \in 1..Len(itemsRef) : itemsRef[i].n = DefaultLimit
  /\ op.ret = [itemsCount |-> DefaultLimit * MaxAttemptsArg, hasMore |-> TRUE]

\* C12: once one of loadUntilCount's fetches has reported hasMore = false,
\* the call issues no further fetch, whatever the item count, and returns
\* at once a snapshot with hasMore false and the current item count.
C12_LucStopsWhenExhausted ==
  [][(luc.pc = "ready" /\ luc.result = FALSE) =>
       /\ luc'.pc = "idle"
       /\ inflight' = inflight /\ nIssued' = nIssued
       /\ op'.name = "loadUntilCount"
       /\ op'.ret = [itemsCount |-> ItemsLen(itemsRef'), hasMore |-> FALSE]]_vars

\* loadUntilCount(45, 2) has returned after one fetch that brought fewer
\* than 45 items and reported hasMore = false.
C12_Witness ==
  /\ op.name = "loadUntilCount"
  /\ op.calls = 1 /\ op.max = 2
  /\ ~op.ret.hasMore
  /\ op.ret.itemsCount > 0 /\ op.ret.itemsCount < op.target

\* C13: once hasMore is false it stays false and no fetcher call is made by
\* any path, until reset or refresh is called.
C13_HasMoreFalseIsSticky ==
  [][(~hasMoreRef /\ ~ResetStep) =>
       (~hasMoreRef' /\ inflight' \ inflight = {})]_vars

\* C14: the accumulated item sequence never holds the items of the same
\* backend page (or cursor position) more than once.
C14_NoDuplicatePages ==
  \A i, j \in 1..Len(itemsRef) : itemsRef[i].key = itemsRef[j].key => i = j

\* C15: a loadMore call made while another fetch is in flight resolves to
\* that fetch's eventual result: what the call returned is what the
\* in-flight fetchData returns when it completes successfully next.
C15_LoadMoreCollapses ==
  [][(op.name = "loadMore" /\ op.busy /\ op'.name = "settle" /\ op'.out = "none") =>
       op.ret = op'.ret]_vars

\* C16: isLoading and isLoadingMore are never both true; isLoading is raised
\* only by a step that issues an initial fetch and isLoadingMore only by a
\* step that issues a continuation fetch.
C16_LoadingFlagsExclusive ==
  [][/\ ~(isLoading' /\ isLoadingMore')
     /\ (~isLoading /\ isLoading') =>
           \E q \in inflight' \ inflight : ~q.isLoadMore
     /\ (~isLoadingMore /\ isLoadingMore') =>
           \E q \in inflight' \ inflight : q.isLoadMore]_vars

\* A continuation fetch was issued while an initial fetch, cut loose by a
\* reset, is still outstanding: isLoadingMore is true and isLoading false.
C16_Witness ==
  /\ isLoadingMore /\ ~isLoading
  /\ \E q \in inflight : ~q.isLoadMore
  /\ \E q \in inflight : q.isLoadMore

\* C17: while enabled is false the controller makes no fetcher call: a step
\* that issues a request is taken with enabled true (for a render, the
\* value the render is given).
C17_NoFetchWhileDisabled ==
  [][inflight' \ inflight # {} => enabled']_vars

\* The entry at index i overlaps the region [a, b].
Overlaps(i, a, b) ==
  /\ i \in DOMAIN itemPositions
  /\ itemPositions[i].start <= b
  /\ itemPositions[i].end >= a

\* The rendered window is the ascending contiguous range from
\* max(0, startIndex - overscan) to min(lastIndex, endIndex + overscan),
\* each entry carrying its position, and the entries at startIndex and
\* endIndex overlap the viewport.
WindowIsOverscannedRange ==
  LET startIndex == findStartIndex(scrollTop)
      endIndex == findEndIndex(scrollTop, containerHeight)
      first == Max(0, startIndex - overscan)
      last == Min(itemsLength - 1, endIndex + overscan)
  IN /\ Overlaps(startIndex, scrollTop, scrollTop + containerHeight)
     /\ Overlaps(endIndex, scrollTop, scrollTop + containerHeight)
     /\ first <= last
     /\ Len(virtualItems) = last - first + 1
     /\ \A k \in 1..Len(virtualItems) :
           /\ virtualItems[k].index = first + k - 1
           /\ virtualItems[k].index \in 0..(itemsLength - 1)
           /\ virtualItems[k].start = OffsetOf(virtualItems[k].index)
           /\ virtualItems[k].end = OffsetOf(virtualItems[k].index + 1)

C19_StartIsSmallestOverlapping ==
  (itemsLength > 0 /\ scrollTop <= totalHeight) =>
     /\ Overlaps(findStartIndex(scrollTop), scrollTop, scrollTop)
     /\ \A i \in DOMAIN itemPositions :
           Overlaps(i, scrollTop, scrollTop) => findStartIndex(scrollTop) <= i

\* C20: for a non-zero viewport extent with offset + extent in
\* [0, totalHeight] the end-index search returns the largest index whose
\* entry overlaps offset + extent.
C20_EndIsLargestOverlapping ==
  (itemsLength > 0 /\ containerHeight # 0
   /\ scrollTop + containerHeight <= totalHeight) =>
     LET targetEnd == scrollTop + containerHeight
     IN /\ Overlaps(findEndIndex(scrollTop, containerHeight), targetEnd, targetEnd)
        /\ \A i \in DOMAIN itemPositions :
              Overlaps(i, targetEnd, targetEnd)
                 => findEndIndex(scrollTop, containerHeight) >= i

\* C21: for a non-empty table and an offset beyond the total extent both
\* searches return an index within [0, lastIndex].
C21_SearchesClampToTable ==
  (itemsLength > 0 /\ scrollTop > totalHeight) =>
     /\ findStartIndex(scrollTop) \in 0..(itemsLength - 1)
     /\ findEndIndex(scrollTop, containerHeight) \in 0..(itemsLength - 1)

\* C22: with overscan 0, scroll offset 0 and a viewport extent equal to the
\* non-zero total extent, the window is exactly the index range
\* 0..itemCount-1.
C22_FullViewportShowsAll ==
  (overscan = 0 /\ scrollTop = 0 /\ containerHeight = totalHeight /\ totalHeight # 0) =>
     /\ Len(virtualItems) = itemsLength
     /\ \A k \in 1..Len(virtualItems) : virtualItems[k].index = k - 1

\* C23: scrollToIndex with index < 0 or index >= itemCount is a no-op:
\* neither the container's scroll offset nor the page's nor any other state
\* changes.
C23_ScrollToInvalidIndexIsNoOp ==
  [][(op'.name = "scrollToIndex" /\ (op'.index < 0 \/ op'.index >= itemsLength))
       => UNCHANGED <<vlVars, hookVars, swal, renderedHasMore>>]_vars

\* scrollToIndex was called with the index one past the last item after an
\* earlier call had scrolled the list, and the offset is still there.
C23_Witness ==
  /\ op.name = "scrollToIndex"
  /\ itemsLength > 0 /\ op.index = itemsLength
  /\ scrolled.container > 0

\* C24: for a valid index scrollToIndex sets the scroll offset to max(0, t)
\* with t = entry.start for start, entry.start - extent/2 + entry.size/2 for
\* center and entry.end - extent for end; in window mode the page offset
\* becomes the container's top on the page plus max(0, t).  (Offsets are
\* compared doubled.)
C24_ScrollTarget ==
  [][(op'.name = "scrollToIndex" /\ op'.index \in 0..(itemsLength - 1)) =>
       LET pos == itemPositions[op'.index]
           t2 == CASE op'.align = "start" -> 2 * pos.start
                   [] op'.align = "center" -> 2 * pos.start - containerHeight + pos.size
                   [] op'.align = "end" -> 2 * pos.end - 2 * containerHeight
       IN IF useWindowScroll
          THEN /\ \E containerTop \in ContainerTops :
                    scrolled'.window = 2 * containerTop + Max(0, t2)
               /\ scrolled'.container = scrolled.container
          ELSE /\ scrolled'.container = Max(0, t2)
               /\ scrolled'.window = scrolled.window]_vars

\* A centered scroll to the second of two items of height 5 in a container
\* of height 2 has set the offset to 5 - 1 + 2.5 = 6.5.
C24_Witness ==
  /\ op.name = "scrollToIndex" /\ op.index = 1 /\ op.align = "center"
  /\ itemHeights = <<5, 5>> /\ containerHeight = 2
  /\ ~useWindowScroll
  /\ scrolled.container = 13

\* The step in which the loadUntilCount that a scrollToIndexWithAutoLoad
\* call awaits returns: at once in the step of the call, or on resuming
\* after a fetch.
SwalCallsLoad == op'.name = "scrollToIndexWithAutoLoad" /\ op'.index >= itemsLength
SwalLoadReturns == luc'.pc = "idle" /\ (SwalCallsLoad \/ swal.pc = "await")
SwalLoadIndex == IF swal.pc = "await" THEN swal.index ELSE op'.index

\* C25: scrollToIndexWithAutoLoad(index) with index below the item count of
\* the render it is called in scrolls through scrollToIndex and issues no
\* fetch; otherwise it runs loadUntilCount(index + 1), and when that returns
\* an item count <= index the call ends without a scroll.
C25_AutoLoadBranches ==
  [][/\ (op'.name = "scrollToIndexWithAutoLoad" /\ op'.index < itemsLength) =>
          /\ nIssued' = nIssued /\ inflight' = inflight /\ luc' = luc
          /\ swal' = SwalIdle
          /\ scrolled'.container =
                Max(0, targetScrollTop2(itemHeights, containerHeight, op'.index, op'.align))
     /\ SwalCallsLoad =>
          /\ scrolled' = scrolled
          /\ \/ luc'.pc \in {"wait", "ready"} /\ luc'.target = op'.index + 1
                   /\ luc'.max = DefaultMaxAttempts /\ swal'.pc = "await"
             \/ luc'.pc = "idle" /\ (ItemsLen(itemsRef) > op'.index \/ ~hasMoreRef)
     /\ (SwalLoadReturns /\ ItemsLen(itemsRef') <= SwalLoadIndex) =>
          /\ swal' = SwalIdle
          /\ scrolled' = scrolled]_vars

\* A call for a loaded index has scrolled the list, and a later call for
\* index 22 has ended without a scroll because loading stopped at 10 items.
C25_Witness ==
  /\ op.name = "swalAfterLoad" /\ op.index = 22 /\ op.itemsCount = 10
  /\ swal = SwalIdle
  /\ scrolled.container = 2 * 2 * DefaultItemHeight

\* C26: when the load of a scrollToIndexWithAutoLoad call has brought the
\* item count above the index, the deferred scroll sets the scroll offset
\* to the scrollToIndex target computed on the positions that cover the new
\* item count.
C26_ScrollsAfterLoad ==
  [][(swal.pc = "timer" /\ swal'.pc = "idle" /\ swal.index < itemsLength) =>
       scrolled'.container =
         Max(0, targetScrollTop2(itemHeights, containerHeight, swal.index, swal.align))]_vars

\* C27: the in-flight guard is true exactly when one fetch is outstanding,
\* also across reset and refresh and across the completion of a fetch that
\* was issued before a reset.
C27_GuardIffOneOutstanding == isFetchingRef <=> (Cardinality(inflight) = 1)

\* C28: when a fetch issued by loadUntilCount fails, items, page, cursor and
\* hasMore are left as they were, so that the retry asks for the same page
\* or cursor.
C28_FailingLoadsKeepState ==
  [][(luc.pc = "wait" /\ luc'.pc = "ready" /\ FailingSettle) =>
       /\ items' = items /\ itemsRef' = itemsRef
       /\ pageRef' = pageRef /\ cursorRef' = cursorRef
       /\ hasMore' = hasMore /\ hasMoreRef' = hasMoreRef]_vars

\* C29: when loadUntilCount(target, maxAttempts) returns, the item count is
\* at least target, or hasMore is false, or the call made maxAttempts
\* fetcher calls - also when it was called while another fetch was in
\* flight.
C29_LucPostcondition ==
  op.name = "loadUntilCount" =>
     \/ op.ret.itemsCount >= op.target
     \/ ~op.ret.hasMore
     \/ op.calls = op.max

\* fetchData(true), called by loadMore, has returned early (lines 137-138):
\* loadMore's own check (line 206) let the call through.
FetchDataReturnedEarly ==
  op.name = "loadMore" /\ hasMoreRef /\ ~rendered.isLoading /\ ~rendered.isLoadingMore

\* C30 as stated: when a fetch operation completes, by success, by failure
\* or by an early return, isLoading and isLoadingMore are both false.
C30_FlagsClearedOnEveryReturn ==
  (op.name = "settle" \/ FetchDataReturnedEarly) => (~isLoading /\ ~isLoadingMore)

\* C30: when a fetch that called the fetcher completes, by success or by
\* failure, isLoading and isLoadingMore are both false; an early return
\* leaves both flags as they are.
C30_FlagsClearedAfterFetch ==
  [][/\ op'.name = "settle" => (~isLoading' /\ ~isLoadingMore')
     /\ op'.name = "loadMore" =>
          (isLoading' = isLoading /\ isLoadingMore' = isLoadingMore)]_vars

\* A continuation fetch has failed in the fetcher.
C30_Witness ==
  /\ op.name = "settle" /\ op.out = "fetcher" /\ op.isLoadMore
  /\ error = Err
  /\ ~isLoading /\ ~isLoadingMore

\* C31: the item sequence is changed in the order in which the fetches
\* were issued: when the completion of a fetch changes the items, no fetch
\* issued before it is still outstanding to change them afterwards.
C31_MutationsInRequestOrder ==
  [][\A req \in inflight \ inflight' :
        itemsRef' # itemsRef => \A q \in inflight : q.id >= req.id]_vars

\* C32: reset and refresh do not cancel an outstanding fetch, and every
\* fetch that completes successfully, one issued before a reset included,
\* is applied to the state it finds: its items are written into the current
\* item sequence (appended for a continuation fetch), the page or cursor is
\* advanced and hasMore is set from its response.
C32_ResetDoesNotCancel ==
  [][/\ op'.name \in {"reset", "refresh"} => inflight' = inflight
     /\ (op'.name = "settle" /\ op'.out = "none") =>
          LET batch == [key |-> op'.req.params, n |-> op'.r.n]
              allItems == IF op'.req.isLoadMore THEN Append(itemsRef, batch)
                          ELSE <<batch>>
          IN /\ items' = allItems /\ itemsRef' = allItems
             /\ isPagePagination => pageRef' = pageRef + 1
             /\ (~isPagePagination /\ cfg.getNextCursor) => cursorRef' = op'.r.next
             /\ hasMore' = checkHasMore(op'.r, allItems)
             /\ hasMoreRef' = hasMore']_vars

\* The fetch of page 2 was outstanding when reset() emptied the list; it
\* has completed since, and the list holds page 2 as its only batch, the
\* page counter standing at 2.
C32_Witness ==
  /\ op.name = "settle" /\ op.out = "none"
  /\ isPagePagination /\ op.req.params.page = 2
  /\ Len(itemsRef) = 1 /\ itemsRef[1].key.page = 2
  /\ items = itemsRef
  /\ pageRef = 2

RECURSIVE HeightSum(_, _)
\* h(lo) + ... + h(hi) for 0-based indices, h being getItemHeight.
HeightSum(lo, hi) == IF lo > hi THEN 0 ELSE itemHeights[lo + 1] + HeightSum(lo + 1, hi)

\* C33: for every item count n and heights h >= 0 the position table has
\* exactly n entries with entry[i].size = h(i), entry[i].start = the sum of
\* h(0..i-1), entry[i].end = entry[i].start + h(i) = entry[i+1].start,
\* non-decreasing starts, and the total extent is entry[n-1].end (0 for
\* n = 0).
C33_PositionTable ==
  /\ DOMAIN itemPositions = 0..(itemsLength - 1)
  /\ \A i \in 0..(itemsLength - 1) :
        /\ itemPositions[i].size = itemHeights[i + 1]
        /\ itemPositions[i].start = HeightSum(0, i - 1)
        /\ itemPositions[i].end = itemPositions[i].start + itemHeights[i + 1]
        /\ i + 1 < itemsLength =>
              /\ itemPositions[i].end = itemPositions[i + 1].start
              /\ itemPositions[i].start <= itemPositions[i + 1].start
  /\ totalHeight = (IF itemsLength = 0 THEN 0 ELSE itemPositions[itemsLength - 1].end)

\* Three items of heights 5, 0 and 2: the zero-height item starts and ends
\* at 5, and the total extent is 7.
C33_Witness ==
  /\ itemHeights = <<5, 0, 2>>
  /\ itemPositions[1] = [start |-> 5, end |-> 5, size |-> 0]
  /\ totalHeight = 7

\* Item i is in the computed window.
InWindow(i) == \E k \in DOMAIN virtualItems : virtualItems[k].index = i

\* Item i intersects the open interval (scrollTop, scrollTop + containerHeight).
Visible(i) ==
  /\ itemPositions[i].end > scrollTop
  /\ itemPositions[i].start < scrollTop + containerHeight

\* C37: for strictly positive item heights, a non-zero viewport extent, any
\* overscan and any scroll offset, every item that intersects the open
\* interval (scrollOffset, scrollOffset + viewportExtent) is in the
\* computed window.
C37_VisibleItemsInWindow ==
  ((\A j \in 1..itemsLength : itemHeights[j] > 0) /\ containerHeight > 0) =>
     \A i \in 0..(itemsLength - 1) : Visible(i) => InWindow(i)

\* Without overscan, scrolled to an item boundary, the viewport shows the
\* second of three items and part of the third; the first is left out.
C37_Witness ==
  /\ itemHeights = <<5, 2, 5>> /\ overscan = 0
  /\ scrollTop = 5 /\ containerHeight = 4
  /\ Visible(1) /\ Visible(2) /\ ~Visible(0)
  /\ InWindow(1) /\ InWindow(2)

\* C36: in every reachable state isLoading or isLoadingMore being true
\* implies that the in-flight guard is set.
C36_LoadingImpliesGuard == (isLoading \/ isLoadingMore) => isFetchingRef

\* A continuation fetch issued after a reset is loading, guard set, while
\* the fetch issued before the reset is still outstanding too.
C36_Witness ==
  /\ isLoadingMore /\ isFetchingRef
  /\ Cardinality(inflight) = 2

\* C38: when a fetch settles exactly one of the two callbacks is invoked:
\* onSuccess if and only if the fetch succeeded, onError if and only if it
\* failed, never both.
C38_ExactlyOneCallback ==
  op.name = "settle" =>
     /\ onSuccessCalled(op.out) <=> ~onErrorCalled(op.out)
     /\ onErrorCalled(op.out) <=> error = Err

\* C34: on every scroll event and on every resize event of the virtualized
\* list the load-more callback is invoked if and only if the distance from
\* the end is below the threshold.
C34_NearEndOnScrollAndResize ==
  op.name \in {"scroll", "resize"} => (op.onNearEnd <=> op.near)

\* C35: a near-end scroll event reaches the fetcher only when no fetch is
\* in progress and hasMore is true.
C35_TriggerFetchesOnlyWhenIdle ==
  [][(op'.name = "scroll" /\ inflight' # inflight) =>
       (inflight = {} /\ hasMoreRef /\ hasMore)]_vars

\* The keys under which the finite backend holds items.
BackendKeys ==
  IF isPagePagination
  THEN {[page |-> pg, limit |-> limit] : pg \in 1..Len(BackendPageSizes)}
  ELSE {[cursor |-> "abc", limit |-> limit]}

\* C40: with near-end scroll events driving the loading, once hasMore has
\* become false every item of the finite backend is loaded exactly once,
\* also when a fetch failed in between.
C40_ExhaustedMeansLoadedOnce ==
  ~hasMoreRef =>
     \A k \in BackendKeys :
        Cardinality({i \in 1..Len(itemsRef) : itemsRef[i].key = k}) = 1

\* The exploration has spent its fetch budget on the very fetch that
\* loadUntilCount, or refresh, is about to make.  A loadUntilCount cut off
\* there holds up every task behind its microtask.
LucCutOff == luc.pc = "ready" /\ ~ENABLED lucResume
RefreshCutOff == refreshPc = "timer" /\ ~ENABLED refreshFetch

\* C39: with every fetcher call settling, every loadMore, loadUntilCount and
\* refresh call returns, and loadUntilCount runs at most maxAttempts loop
\* iterations, whether its fetches succeed, fail or return early.
C39_CallsReturn ==
  /\ (luc.pc # "idle") ~> (luc.pc = "idle" \/ LucCutOff)
  /\ (refreshPc # "idle") ~> (refreshPc = "idle" \/ RefreshCutOff \/ LucCutOff)
  /\ (inflight # {}) ~> (inflight = {} \/ LucCutOff)
  /\ [](luc.pc # "idle" => luc.attempts < luc.max)

\* loadUntilCount(45, MaxAttemptsArg) has returned without a fetcher call,
\* all its iterations having returned early while the initial fetch was in
\* flight.
C39_Witness ==
  /\ op.name = "loadUntilCount"
  /\ op.max = MaxAttemptsArg /\ op.calls = 0
  /\ inflight # {}
  /\ luc = LucIdle

=============================================================================
